---- MODULE Spec2Model ----
(***************************************************************************)
(* Voicetral: the session loop of main.py and the conversation store of    *)
(* short_term_memory.py.  Text is modelled as sequences of one-character   *)
(* strings, files as NoFile or the sequence of characters they hold.       *)
(***************************************************************************)
EXTENDS Integers, Sequences, FiniteSets, TLC

\* ---------------------------------------------------------------- bounds
\* A turn is only started while the history holds fewer than MaxHist
\* messages, so a history never holds more than MaxHist + 1 messages.
MaxHist == 6

\* The longest text handed to filter_response in SpecFilter
MaxText == 3

\* ------------------------------------------------------------- constants
\* main.py:73, the literal 3 of "len(...) > 3" and of "[-3:]"
WindowSize == 3

\* Python's None where a path is expected
None == "None"

\* Python's None where a text is expected; no text holds this character
NoText == <<"<None>">>

\* A file that does not exist; no file holds this character
NoFile == <<"<NoFile>">>

\* A local name that has not been assigned
Unbound == [bound |-> FALSE, val |-> <<>>]

Bound(v) == [bound |-> TRUE, val |-> v]

\* No value yet / a value, for the observations
Nothing == [some |-> FALSE, val |-> <<>>]

Some(v) == [some |-> TRUE, val |-> v]

\* main.py:313
user_id == <<"u", "s", "e", "r">>

RoleUser == <<"u", "s", "e", "r">>

RoleAssistant == <<"a", "s", "s", "i", "s", "t", "a", "n", "t">>

KeyRole == <<"r", "o", "l", "e">>

KeyContent == <<"c", "o", "n", "t", "e", "n", "t">>

\* config.ini values read at main.py:26-35
START_PROMPT == <<"P", " ">>

FILTERED_CHARS == {"o"}

APPLIO_RVC_OUTPUT_PATH == "rvc.wav"

\* main.py:151, file_path.replace(".wav", "_resampled.wav")
ResampledPath(p) == IF p = "rvc.wav" THEN "rvc_resampled.wav" ELSE p

\* main.py:156-157
DefaultResampledPath == "non_resampled.wav"

\* main.py:93, "[ERROR] Failed to get response."
ErrorSentinel ==
  <<"[", "E", "R", "R", "O", "R", "]", " ", "F", "a", "i", "l", "e", "d", " ",
    "t", "o", " ", "g", "e", "t", " ", "r", "e", "s", "p", "o", "n", "s", "e", ".">>

\* main.py:320, the literal "exit"
ExitKeyword == <<"e", "x", "i", "t">>

\* What the transcription can deliver (main.py:318): None, the empty text,
\* spellings of the exit keyword, and other utterances.
Utterances == { <<"e", "x", "i", "t">>, <<"E", "x", "I", "T">>, <<"H", "i", "!">> }

\* What ollama.chat can return as the message content (main.py:85)
Replies == { <<"o", "k", "\"", "\\", "\n", "[">> }

\* ------------------------------------------------------- pure functions
\* str.lower() on the letters that occur in Utterances (main.py:320)
LowerChar(c) ==
  CASE c = "E" -> "e"
    [] c = "X" -> "x"
    [] c = "I" -> "i"
    [] c = "T" -> "t"
    [] c = "H" -> "h"
    [] OTHER -> c

\* The comparison of line 320 without the .lower()
LowerOmitted(s) == s

Lower(s) == [i \in 1..Len(s) |-> LowerChar(s[i])]

\* Python truthiness of user_input (main.py:319): None and "" are falsy
Truthy(u) == u # NoText /\ u # <<>>

IsExit(u) == Truthy(u) /\ Lower(u) = ExitKeyword

\* main.py:79 and main.py:88, the message dictionaries
Message(role, content) == [role |-> role, content |-> content]

\* A user message that leaves out the start prompt
UserMessageBare(prompt) == Message(RoleUser, prompt)

UserMessage(prompt) == Message(RoleUser, START_PROMPT \o prompt)

\* The empty dict, "{}" of short_term_memory.py:32/35
EmptyHistory == <<>>

\* conversation_history[user_id], [] when the key is absent
Msgs(ch) == IF user_id \in DOMAIN ch THEN ch[user_id] ELSE <<>>

\* main.py:69-70
InitUser(ch) == IF user_id \in DOMAIN ch THEN ch ELSE (user_id :> <<>>)

\* Line 74 without the insert of line 75
ShortenNoAnchor(h) == SubSeq(h, Len(h) - WindowSize + 1, Len(h))

\* main.py:74-75: the last three messages, the first one inserted in front
ShortenHistory(h) ==
  <<h[1]>> \o SubSeq(h, Len(h) - WindowSize + 1, Len(h))

\* main.py:73-75 and 82: the message list after the shortening step, the
\* history itself when the condition of line 73 is false
Window(h) == IF Len(h) > WindowSize THEN ShortenHistory(h) ELSE h

\* main.py:299-301
Alnum ==
  {"a", "b", "c", "d", "e", "f", "g", "h", "i", "j", "k", "l", "m", "n", "o",
   "p", "q", "r", "s", "t", "u", "v", "w", "x", "y", "z",
   "A", "B", "C", "D", "E", "F", "G", "H", "I", "J", "K", "L", "M", "N", "O",
   "P", "Q", "R", "S", "T", "U", "V", "W", "X", "Y", "Z",
   "0", "1", "2", "3", "4", "5", "6", "7", "8", "9"}

sym == {" ", "?", "!", ".", ",", ":", ";", "-", "'", "*"}

\* A filter that leaves out the test "char not in filtered_chars"
FilterKeepsForbidden(text, chars) ==
  SelectSeq(text, LAMBDA c : c \in Alnum \/ c \in sym)

\* main.py:299-305, filter_response(input_text, filtered_chars)
FilterWith(text, chars) ==
  SelectSeq(text, LAMBDA c : (c \in Alnum \/ c \in sym) /\ c \notin chars)

\* ------------------------------------------------------------ json.dump
RECURSIVE Flatten(_)
Flatten(ss) == IF ss = <<>> THEN <<>> ELSE Head(ss) \o Flatten(Tail(ss))

\* A writer that puts every character into the document as it is
JsonEscapeCharRaw(c) == <<c>>

\* json string escapes of the characters in use

JsonEscapeChar(c) ==
  CASE c = "\"" -> <<"\\", "\"">>
    [] c = "\\" -> <<"\\", "\\">>
    [] c = "\n" -> <<"\\", "n">>
    [] OTHER -> <<c>>

JsonString(s) ==
  <<"\"">> \o Flatten([i \in 1..Len(s) |-> JsonEscapeChar(s[i])]) \o <<"\"">>

\* {"role": "...", "content": "..."}
JsonMessage(m) ==
  <<"{">> \o JsonString(KeyRole) \o <<":", " ">> \o JsonString(m.role)
    \o <<",", " ">> \o JsonString(KeyContent) \o <<":", " ">>
    \o JsonString(m.content) \o <<"}">>

RECURSIVE JsonItems(_)
JsonItems(h) ==
  IF h = <<>> THEN <<>>
  ELSE IF Len(h) = 1 THEN JsonMessage(h[1])
  ELSE JsonMessage(h[1]) \o <<",", " ">> \o JsonItems(Tail(h))

JsonList(h) == <<"[">> \o JsonItems(h) \o <<"]">>

\* json.dump(conversation_history, file), short_term_memory.py:15
JsonDump(ch) ==
  IF user_id \in DOMAIN ch
  THEN <<"{">> \o JsonString(user_id) \o <<":", " ">> \o JsonList(ch[user_id])
         \o <<"}">>
  ELSE <<"{", "}">>

\* ------------------------------------------------------------ json.load
Fail == [ok |-> FALSE, val |-> <<>>, next |-> 0]

Ok(v, n) == [ok |-> TRUE, val |-> v, next |-> n]

\* TRUE iff the characters of lit stand at position i of s
Expect(s, i, lit) ==
  /\ i + Len(lit) - 1 <= Len(s)
  /\ \A k \in 1..Len(lit) : s[i + k - 1] = lit[k]

\* The body of a string, i being the position after the opening quote
RECURSIVE ParseStrBody(_, _, _)
ParseStrBody(s, i, acc) ==
  IF i > Len(s) THEN Fail
  ELSE IF s[i] = "\"" THEN Ok(acc, i + 1)
  ELSE IF s[i] = "\\"
    THEN IF i + 1 > Len(s) THEN Fail
         ELSE IF s[i + 1] \in {"\"", "\\"}
           THEN ParseStrBody(s, i + 2, Append(acc, s[i + 1]))
         ELSE IF s[i + 1] = "n" THEN ParseStrBody(s, i + 2, Append(acc, "\n"))
         ELSE Fail
  ELSE IF s[i] = "\n" THEN Fail
  ELSE ParseStrBody(s, i + 1, Append(acc, s[i]))

ParseString(s, i) ==
  IF Expect(s, i, <<"\"">>) THEN ParseStrBody(s, i + 1, <<>>) ELSE Fail

\* "key": "value" with the given key
ParseField(s, i, key) ==
  LET k == ParseString(s, i) IN
  IF ~k.ok \/ k.val # key \/ ~Expect(s, k.next, <<":", " ">>) THEN Fail
  ELSE ParseString(s, k.next + 2)

ParseMessage(s, i) ==
  IF ~Expect(s, i, <<"{">>) THEN Fail
  ELSE LET r == ParseField(s, i + 1, KeyRole) IN
    IF ~r.ok \/ ~Expect(s, r.next, <<",", " ">>) THEN Fail
    ELSE LET c == ParseField(s, r.next + 2, KeyContent) IN
      IF ~c.ok \/ ~Expect(s, c.next, <<"}">>) THEN Fail
      ELSE Ok(Message(r.val, c.val), c.next + 1)

\* The items of a list after its "[", up to and including its "]"
RECURSIVE ParseItems(_, _, _)
ParseItems(s, i, acc) ==
  IF acc = <<>> /\ Expect(s, i, <<"]">>) THEN Ok(acc, i + 1)
  ELSE LET m == ParseMessage(s, i) IN
    IF ~m.ok THEN Fail
    ELSE IF Expect(s, m.next, <<",", " ">>)
      THEN ParseItems(s, m.next + 2, Append(acc, m.val))
    ELSE IF Expect(s, m.next, <<"]">>) THEN Ok(Append(acc, m.val), m.next + 1)
    ELSE Fail

\* json.load(file), short_term_memory.py:29, on the documents json.dump
\* writes for a history and on their prefixes: ok and the dict, or not ok
\* where json.load raises
JsonLoad(s) ==
  IF s = <<"{", "}">> THEN Ok(EmptyHistory, 3)
  ELSE IF ~Expect(s, 1, <<"{">>) THEN Fail
  ELSE LET k == ParseString(s, 2) IN
    IF ~k.ok \/ ~Expect(s, k.next, <<":", " ", "[">>) THEN Fail
    ELSE LET l == ParseItems(s, k.next + 3, <<>>) IN
      IF ~l.ok \/ ~Expect(s, l.next, <<"}">>) \/ l.next # Len(s) THEN Fail
      ELSE Ok((k.val :> l.val), l.next + 1)

\* ------------------------------------------------- the conversation store
\* A load that drops what it parsed
LoadAlwaysEmpty(f) == EmptyHistory

\* load_conversation_history, short_term_memory.py:20-35: the parsed file,
\* {} when the file is missing (line 30-32) or json.load raises (line 33-35)

load_conversation_history(f) ==
  IF f = NoFile THEN EmptyHistory
  ELSE IF ~JsonLoad(f).ok THEN EmptyHistory
  ELSE JsonLoad(f).val

Prefix(s, n) == SubSeq(s, 1, n)

\* Where a write that does not complete can stop: after the file was
\* created, or after the first character of the document
CutPoints(s) == {0, 1}

\* A record that is on disk but is no JSON document
CorruptRecord == <<"{", "\"", "u">>

\* ------------------------------------------------------------------ state
VARIABLES
  pc,                   \* position in main(), or "done" / "died" / "crashed"
  conversation_history, \* main.py:314, the in-memory dict
  file,                 \* conversation_history_user.json
  temp,                 \* conversation_history_user.json.temp
  user_input,           \* main.py:318
  shortened_history,    \* main.py:74, Unbound when line 73 is false
  response,             \* main.py:324-325
  audio_file,           \* main.py:329
  resampled_audio,      \* main.py:332
  calls,                \* collaborator calls made since the last capture
  sent,                 \* messages= of the turn's ollama.chat call, <<>> if none
  gen,                  \* outcome of the turn's ollama.chat: none / ok / fail
  turn0,                \* the user's messages when the capture returned
  played,               \* path handed to play_audio in this turn
  persisted,            \* history of the last os.replace that succeeded
  save_result,          \* none / ok / error (the logging.error of line 18)
  filtered_chars,       \* main.py:35 and 292, the default of filter_response
  input_text,           \* main.py:292, the text last handed to filter_response
  loaded,               \* the user's messages main.py:314 loaded
  appended              \* the messages this process appended, in order

vars ==
  <<pc, conversation_history, file, temp, user_input, shortened_history,
    response, audio_file, resampled_audio, calls, sent, gen, turn0, played,
    persisted, save_result, filtered_chars, input_text, loaded, appended>>

config == <<filtered_chars>>

session == <<loaded, appended>>

\* main.py:325, filter_response called with the default filtered_chars
filter_response(text) == FilterWith(text, filtered_chars)

locals == <<user_input, shortened_history, response, audio_file,
            resampled_audio>>

observed == <<calls, sent, gen, turn0, played>>

disk == <<file, temp, persisted>>

history == Msgs(conversation_history)

\* The state of a process that has just been started
FreshProcess ==
  /\ conversation_history' = EmptyHistory
  /\ user_input' = NoText
  /\ shortened_history' = Unbound
  /\ response' = NoText
  /\ audio_file' = None
  /\ resampled_audio' = None
  /\ calls' = {}
  /\ sent' = <<>>
  /\ gen' = "none"
  /\ turn0' = <<>>
  /\ played' = None
  /\ save_result' = "none"
  /\ input_text' = NoText
  /\ loaded' = <<>>
  /\ appended' = <<>>
  /\ UNCHANGED config

Init ==
  /\ pc = "start"
  /\ conversation_history = EmptyHistory
  /\ file \in {NoFile, CorruptRecord}
  /\ temp = NoFile
  /\ user_input = NoText
  /\ shortened_history = Unbound
  /\ response = NoText
  /\ audio_file = None
  /\ resampled_audio = None
  /\ calls = {}
  /\ sent = <<>>
  /\ gen = "none"
  /\ turn0 = <<>>
  /\ played = None
  /\ persisted = Nothing
  /\ save_result = "none"
  /\ filtered_chars = FILTERED_CHARS
  /\ input_text = NoText
  /\ loaded = <<>>
  /\ appended = <<>>

\* ------------------------------------------------------------------ main
\* A load without the handler of short_term_memory.py:33-35: a record that
\* does not parse ends the process with the JSONDecodeError
LoadHistoryUncaught ==
  /\ pc = "start"
  /\ IF file # NoFile /\ ~JsonLoad(file).ok
       THEN /\ pc' = "died"
            /\ FreshProcess
            /\ UNCHANGED disk
       ELSE /\ conversation_history' = load_conversation_history(file)
            /\ pc' = "listen"
            /\ UNCHANGED <<locals, observed, disk, save_result>>
            /\ loaded' = Msgs(load_conversation_history(file))
            /\ UNCHANGED <<config, input_text, appended>>

\* main.py:313-315
LoadHistory ==
  /\ pc = "start"
  /\ conversation_history' = load_conversation_history(file)
  /\ pc' = "listen"
  /\ UNCHANGED <<locals, observed, disk, save_result>>
  /\ loaded' = Msgs(load_conversation_history(file))
  /\ UNCHANGED <<config, input_text, appended>>

\* The texts speech_to_text can return on this iteration; an utterance that
\* starts a turn is only drawn while the history is below the bound
CaptureResults ==
  {NoText, <<>>} \cup
    {u \in Utterances : IsExit(u) \/ Len(history) < MaxHist}

\* main.py:318 with speech_to_text, main.py:259-289: the text, or None when
\* the transcription failed and was caught
SpeechToText ==
  /\ pc = "listen"
  /\ \E u \in CaptureResults : user_input' = u
  /\ shortened_history' = Unbound
  /\ response' = NoText
  /\ audio_file' = None
  /\ resampled_audio' = None
  /\ calls' = {}
  /\ sent' = <<>>
  /\ gen' = "none"
  /\ turn0' = history
  /\ played' = None
  /\ pc' = "check"
  /\ UNCHANGED <<conversation_history, disk, save_result>>
  /\ input_text' = NoText
  /\ UNCHANGED <<config, session>>

\* main.py:254-257: sr.Microphone(...) and recognizer.listen(source) stand
\* outside the try of line 259, and main() has no handler: the exception
\* ends the process and what it held in memory
CaptureRaises ==
  /\ pc = "listen"
  /\ pc' = "died"
  /\ FreshProcess
  /\ UNCHANGED disk

\* main.py:319, the condition is false
SkipTurn ==
  /\ pc = "check"
  /\ ~Truthy(user_input)
  /\ pc' = "listen"
  /\ UNCHANGED <<conversation_history, locals, observed, disk, save_result>>
  /\ UNCHANGED <<config, input_text, session>>

\* main.py:320-321, up to the call of save_conversation_history
ExitRequested ==
  /\ pc = "check"
  /\ Truthy(user_input)
  /\ Lower(user_input) = ExitKeyword
  /\ calls' = calls \cup {"save"}
  /\ pc' = "save"
  /\ UNCHANGED <<conversation_history, locals, sent, gen, turn0, played, disk,
                 save_result>>
  /\ UNCHANGED <<config, input_text, session>>

\* A shortening that assigns the shortened list to the user's history
HistoryTruncated(ch) == (user_id :> Window(ch[user_id]))

\* main.py:73-75 build a new list: conversation_history[user_id] is sliced,
\* never assigned

HistoryAfterShorten(ch) == ch

\* main.py:324 and get_ollama_response, main.py:69-75
Shorten ==
  /\ pc = "check"
  /\ Truthy(user_input)
  /\ Lower(user_input) # ExitKeyword
  /\ conversation_history' = HistoryAfterShorten(InitUser(conversation_history))
  /\ shortened_history' =
       IF Len(history) > WindowSize THEN Bound(ShortenHistory(history))
       ELSE Unbound
  /\ pc' = "append"
  /\ UNCHANGED <<user_input, response, audio_file, resampled_audio, observed,
                 disk, save_result>>
  /\ UNCHANGED <<config, input_text, session>>

\* main.py:79
AppendUser ==
  /\ pc = "append"
  /\ conversation_history' =
       [conversation_history EXCEPT
          ![user_id] = Append(@, UserMessage(user_input))]
  /\ pc' = "chat"
  /\ UNCHANGED <<locals, observed, disk, save_result>>
  /\ appended' = Append(appended, UserMessage(user_input))
  /\ UNCHANGED <<config, input_text, loaded>>

\* main.py:82, the messages= argument of ollama.chat
ChatMessages == conversation_history[user_id]

\* main.py:82-90, ollama.chat returns a message
ChatOk ==
  /\ pc = "chat"
  /\ \E r \in Replies :
       /\ conversation_history' =
            [conversation_history EXCEPT
               ![user_id] = Append(@, Message(RoleAssistant, r))]
       /\ response' = r
       /\ appended' = Append(appended, Message(RoleAssistant, r))
  /\ sent' = ChatMessages
  /\ calls' = calls \cup {"generate"}
  /\ gen' = "ok"
  /\ pc' = "filter"
  /\ UNCHANGED <<user_input, shortened_history, audio_file, resampled_audio,
                 turn0, played, disk, save_result>>
  /\ UNCHANGED <<config, input_text, loaded>>

\* What main() goes on to after get_ollama_response returned the sentinel
\* (main.py:324-325: the return value is not compared with anything)
AfterChatFailure == "filter"

\* A failure handler that takes the turn's user message out of the history
ChatFailsRollsBack ==
  /\ pc = "chat"
  /\ conversation_history' = (user_id :> turn0)
  /\ response' = ErrorSentinel
  /\ sent' = ChatMessages
  /\ calls' = calls \cup {"generate"}
  /\ gen' = "fail"
  /\ pc' = AfterChatFailure
  /\ UNCHANGED <<user_input, shortened_history, audio_file, resampled_audio,
                 turn0, played, disk, save_result>>
  /\ UNCHANGED <<config, input_text, session>>

\* main.py:82-85 raise, main.py:91-93
ChatFails ==
  /\ pc = "chat"
  /\ response' = ErrorSentinel
  /\ sent' = ChatMessages
  /\ calls' = calls \cup {"generate"}
  /\ gen' = "fail"
  /\ pc' = AfterChatFailure
  /\ UNCHANGED <<conversation_history, user_input, shortened_history,
                 audio_file, resampled_audio, turn0, played, disk, save_result>>
  /\ UNCHANGED <<config, input_text, session>>

\* main.py:325
FilterResponse ==
  /\ pc = "filter"
  /\ response' = filter_response(response)
  /\ pc' = "tts"
  /\ UNCHANGED <<conversation_history, user_input, shortened_history,
                 audio_file, resampled_audio, observed, disk, save_result>>
  /\ input_text' = response
  /\ UNCHANGED <<config, session>>

\* main.py:327-331 with convert_text_to_speech, main.py:105-133
TtsOk ==
  /\ pc = "tts"
  /\ audio_file' = APPLIO_RVC_OUTPUT_PATH
  /\ calls' = calls \cup {"synthesize"}
  /\ pc' = "resample"
  /\ UNCHANGED <<conversation_history, user_input, shortened_history, response,
                 resampled_audio, sent, gen, turn0, played, disk, save_result>>
  /\ UNCHANGED <<config, input_text, session>>

\* main.py:134-136, and the false branch of main.py:331
TtsFails ==
  /\ pc = "tts"
  /\ audio_file' = None
  /\ calls' = calls \cup {"synthesize"}
  /\ pc' = "listen"
  /\ UNCHANGED <<conversation_history, user_input, shortened_history, response,
                 resampled_audio, sent, gen, turn0, played, disk, save_result>>
  /\ UNCHANGED <<config, input_text, session>>

\* main.py:332-333 with resample_audio, main.py:147-152 and 158
ResampleOk ==
  /\ pc = "resample"
  /\ resampled_audio' = ResampledPath(audio_file)
  /\ calls' = calls \cup {"resample"}
  /\ pc' = "play"
  /\ UNCHANGED <<conversation_history, user_input, shortened_history, response,
                 audio_file, sent, gen, turn0, played, disk, save_result>>
  /\ UNCHANGED <<config, input_text, session>>

\* A fallback that writes the default file and still returns the derived
\* path, whose export had failed
ResampleFallbackDerivedPath ==
  /\ pc = "resample"
  /\ resampled_audio' = ResampledPath(audio_file)
  /\ calls' = calls \cup {"resample", "export_failed", "default_written"}
  /\ pc' = "play"
  /\ UNCHANGED <<conversation_history, user_input, shortened_history, response,
                 audio_file, sent, gen, turn0, played, disk, save_result>>
  /\ UNCHANGED <<config, input_text, session>>

\* main.py:153-157: the export raised IOError, the export to the default
\* path went through
ResampleFallback ==
  /\ pc = "resample"
  /\ resampled_audio' = DefaultResampledPath
  /\ calls' = calls \cup {"resample", "export_failed", "default_written"}
  /\ pc' = "play"
  /\ UNCHANGED <<conversation_history, user_input, shortened_history, response,
                 audio_file, sent, gen, turn0, played, disk, save_result>>
  /\ UNCHANGED <<config, input_text, session>>

\* main.py:153-156 and 159-161: the export raised IOError and the export to
\* the default path raised too; the false branch of main.py:333
ResampleFallbackFails ==
  /\ pc = "resample"
  /\ resampled_audio' = None
  /\ calls' = calls \cup {"resample", "export_failed"}
  /\ pc' = "listen"
  /\ UNCHANGED <<conversation_history, user_input, shortened_history, response,
                 audio_file, sent, gen, turn0, played, disk, save_result>>
  /\ UNCHANGED <<config, input_text, session>>

\* main.py:159-161 (from_file or set_frame_rate raised, before any write),
\* and the false branch of main.py:333
ResampleFails ==
  /\ pc = "resample"
  /\ resampled_audio' = None
  /\ calls' = calls \cup {"resample"}
  /\ pc' = "listen"
  /\ UNCHANGED <<conversation_history, user_input, shortened_history, response,
                 audio_file, sent, gen, turn0, played, disk, save_result>>
  /\ UNCHANGED <<config, input_text, session>>

\* main.py:334 with play_audio, main.py:171-176; a playback error is logged
\* at line 176 and play_audio returns all the same
PlayAudio ==
  /\ pc = "play"
  /\ played' = resampled_audio
  /\ calls' = calls \cup {"play"}
  /\ pc' = "listen"
  /\ UNCHANGED <<conversation_history, locals, sent, gen, turn0, disk,
                 save_result>>
  /\ UNCHANGED <<config, input_text, session>>

\* -------------------------------------------------------------- the save
\* A save that opens the record itself for writing
WriteTargetRecord == "file"

\* The file that open(...) of short_term_memory.py:14 writes: temp_path of
\* line 12, not the record itself

WriteTarget == "temp"

\* What a write of the document for ch that stops early can leave in a file
\* that held old: old itself (open failed), or a proper prefix of the document
Partial(old, ch) ==
  {old} \cup {Prefix(JsonDump(ch), n) : n \in CutPoints(JsonDump(ch))}

\* The two files after the write of short_term_memory.py:14-15 put w into
\* the file it writes
Written(w) ==
  IF WriteTarget = "temp" THEN temp' = w /\ file' = file
  ELSE file' = w /\ temp' = temp

WriteTargetContent == IF WriteTarget = "temp" THEN temp ELSE file

\* short_term_memory.py:12-15, the document is written and the file closed
SaveWriteTemp ==
  /\ pc = "save"
  /\ Written(JsonDump(conversation_history))
  /\ pc' = "replace"
  /\ UNCHANGED <<conversation_history, locals, observed, persisted,
                 save_result>>
  /\ UNCHANGED <<config, input_text, session>>

\* short_term_memory.py:14-15 raise, lines 17-18, then main.py:322
SaveWriteFails ==
  /\ pc = "save"
  /\ \E w \in Partial(WriteTargetContent, conversation_history) : Written(w)
  /\ save_result' = "error"
  /\ pc' = "done"
  /\ UNCHANGED <<conversation_history, locals, observed, persisted>>
  /\ UNCHANGED <<config, input_text, session>>

\* short_term_memory.py:16, os.replace, then main.py:322
SaveReplace ==
  /\ pc = "replace"
  /\ file' = temp
  /\ temp' = NoFile
  /\ persisted' = Some(conversation_history)
  /\ save_result' = "ok"
  /\ pc' = "done"
  /\ UNCHANGED <<conversation_history, locals, observed>>
  /\ UNCHANGED <<config, input_text, session>>

\* short_term_memory.py:16 raises, lines 17-18, then main.py:322
SaveReplaceFails ==
  /\ pc = "replace"
  /\ save_result' = "error"
  /\ pc' = "done"
  /\ UNCHANGED <<conversation_history, locals, observed, disk>>
  /\ UNCHANGED <<config, input_text, session>>

\* ------------------------------------------------- the process as a whole
Running ==
  {"start", "listen", "check", "append", "chat", "filter", "tts", "resample",
   "play", "save", "replace"}

\* The process is terminated from outside at any point of main(); a write
\* to the temporary file that was under way stops where it is
Crash ==
  /\ pc \in Running
  /\ IF pc = "save"
       THEN \E w \in Partial(WriteTargetContent, conversation_history) :
              Written(w)
       ELSE UNCHANGED <<file, temp>>
  /\ pc' = "crashed"
  /\ FreshProcess
  /\ UNCHANGED persisted

\* main.py:337-338, the program is started again
Restart ==
  /\ pc \in {"done", "died", "crashed"}
  /\ pc' = "start"
  /\ FreshProcess
  /\ UNCHANGED disk

Next ==
  \/ LoadHistory
  \/ SpeechToText
  \/ CaptureRaises
  \/ SkipTurn
  \/ ExitRequested
  \/ Shorten
  \/ AppendUser
  \/ ChatOk
  \/ ChatFails
  \/ FilterResponse
  \/ TtsOk
  \/ TtsFails
  \/ ResampleOk
  \/ ResampleFallback
  \/ ResampleFallbackFails
  \/ ResampleFails
  \/ PlayAudio
  \/ SaveWriteTemp
  \/ SaveWriteFails
  \/ SaveReplace
  \/ SaveReplaceFails
  \/ Crash
  \/ Restart

Spec == Init /\ [][Next]_vars

\* ------------------------------------------------ filter_response alone
\* Characters of each kind: letters and a digit, an allowed symbol, and
\* characters that are neither alphanumeric nor in sym
FilterAlphabet == {"a", "o", "7", "!", "[", "\""}

\* Values of filtered_chars in config.ini
FilteredCharsChoices == SUBSET {"o", "!", "["}

FilterTexts == UNION {[1..n -> FilterAlphabet] : n \in 0..MaxText}

\* main.py:325 about to run: any text, any configured filtered_chars
InitFilter ==
  /\ pc = "filter"
  /\ response \in FilterTexts
  /\ filtered_chars \in FilteredCharsChoices
  /\ conversation_history = EmptyHistory
  /\ file = NoFile
  /\ temp = NoFile
  /\ user_input = NoText
  /\ shortened_history = Unbound
  /\ audio_file = None
  /\ resampled_audio = None
  /\ calls = {}
  /\ sent = <<>>
  /\ gen = "none"
  /\ turn0 = <<>>
  /\ played = None
  /\ persisted = Nothing
  /\ save_result = "none"
  /\ input_text = NoText
  /\ loaded = <<>>
  /\ appended = <<>>

\* filter_response (main.py:291-305) applied to its own result
FilterAgain ==
  /\ pc = "tts"
  /\ input_text' = response
  /\ response' = filter_response(response)
  /\ pc' = "filtered_twice"
  /\ UNCHANGED <<conversation_history, user_input, shortened_history,
                 audio_file, resampled_audio, observed, disk, save_result,
                 config, session>>

NextFilter ==
  \/ FilterResponse
  \/ FilterAgain

SpecFilter == InitFilter /\ [][NextFilter]_vars

\* ================================================================ claims
TurnPcs == {"append", "chat", "filter", "tts", "resample", "play"}

\* The user message the Compose step appends for the captured utterance
TurnUserMessage == UserMessage(user_input)

\* C1: in a turn whose ollama.chat call failed, the history is the history
\* the turn started with plus the turn's user message (no assistant
\* message), and neither synthesis, resampling nor playback is attempted.
C1_TurnFailureIsolation ==
  gen = "fail" =>
    /\ history = Append(turn0, TurnUserMessage)
    /\ calls \cap {"synthesize", "resample", "play"} = {}

\* C2: the message list handed to ollama.chat is window(h), h being the
\* history right after the user message was appended, and it never holds
\* more than WindowSize + 1 messages.
C2_RequestIsWindowed ==
  sent # <<>> =>
    /\ sent = Window(Append(turn0, TurnUserMessage))
    /\ Len(sent) <= WindowSize + 1

\* C3: once the Generate step of a turn has succeeded and the turn has moved
\* on to synthesis or beyond, the durable record loads to the in-memory
\* history.
C3_Checkpointed ==
  (gen = "ok" /\ pc \in {"tts", "resample", "play", "listen"}) =>
    load_conversation_history(file) = conversation_history

\* C4: the durable record only ever changes in the replace step of a save,
\* and then to the complete document of the history being saved; a step
\* that ends in termination or in a reported save error leaves it as it
\* was; a record that a save wrote is always the complete document of the
\* history last saved.
C4_RecordComplete ==
  persisted.some => file = JsonDump(persisted.val)

C4_RecordStep ==
  /\ file' # file =>
       /\ pc = "replace" /\ pc' = "done" /\ save_result' = "ok"
       /\ file' = JsonDump(conversation_history)
       /\ JsonLoad(file').ok
  /\ (pc' = "crashed" \/ (pc' = "done" /\ save_result' = "error")) =>
       file' = file

C4_AtomicSave == [](C4_RecordComplete) /\ [][C4_RecordStep]_vars

\* A process was terminated (or a replace failed) with the new document
\* complete in the temporary file and the older record still in place
C4_Witness ==
  /\ pc = "crashed"
  /\ temp # NoFile /\ JsonLoad(temp).ok
  /\ persisted.some /\ file = JsonDump(persisted.val) /\ file # temp

\* C5: the session loop ends (main() returns or dies of an exception) only
\* after the exit keyword was captured.
C5_OnlyExitEndsSession ==
  pc \in {"done", "died"} => IsExit(user_input)

\* The spellings of the exit keyword in lower and upper case letters
ExitSpellings ==
  {s \in [1..4 -> {"e", "E", "x", "X", "i", "I", "t", "T"}] :
     /\ s[1] \in {"e", "E"} /\ s[2] \in {"x", "X"}
     /\ s[3] \in {"i", "I"} /\ s[4] \in {"t", "T"}}

\* C6: an utterance that spells the exit keyword in any letter case leads to
\* the save and then to the end of the loop, with no message appended and no
\* generate, synthesize or play call; any other non-empty utterance starts
\* one turn, which ends back at the capture step.
C6_Dispatch ==
  /\ (pc = "check" /\ pc' # "crashed") =>
       IF user_input \in ExitSpellings
         THEN pc' = "save" /\ conversation_history' = conversation_history
       ELSE IF user_input \notin {NoText, <<>>} THEN pc' = "append"
       ELSE pc' = "listen"
  /\ pc \in {"save", "replace"} =>
       /\ pc' \in {"replace", "done", "crashed"}
       /\ pc' # "crashed" =>
            UNCHANGED <<conversation_history, calls, sent, played>>
  /\ pc \in TurnPcs => pc' \in TurnPcs \cup {"listen", "crashed"}
  /\ pc' = "done" => pc \in {"save", "replace"}

C6_ExitState ==
  /\ pc \in {"save", "replace", "done"} =>
       /\ user_input \in ExitSpellings
       /\ history = turn0
       /\ calls = {"save"} /\ sent = <<>> /\ played = None
  /\ pc \in TurnPcs =>
       /\ user_input \notin ExitSpellings \cup {NoText, <<>>}
       /\ "save" \notin calls
       /\ Len(history) \in {Len(turn0), Len(turn0) + 1, Len(turn0) + 2}

C6_ExitHandling == [](C6_ExitState) /\ [][C6_Dispatch]_vars

C6_Witness ==
  /\ pc = "done" /\ save_result = "ok"
  /\ user_input = <<"E", "x", "I", "T">>
  /\ Len(history) >= 2

\* C7: after a save that succeeded, loading the record gives the history
\* that was saved, the same messages in the same order.
C7_RoundTrip ==
  (pc = "done" /\ save_result = "ok") =>
    /\ load_conversation_history(file) = conversation_history
    /\ Msgs(load_conversation_history(file)) = history

\* A saved history with an assistant message, whose text needs escapes
C7_Witness ==
  /\ pc = "done" /\ save_result = "ok"
  /\ \E i \in 1..Len(history) :
       /\ history[i].role = RoleAssistant
       /\ \E k \in 1..Len(history[i].content) :
            history[i].content[k] \in {"\"", "\\", "\n"}

Min(a, b) == IF a <= b THEN a ELSE b

\* The property of C8 for one history h
WindowResultOf(h) ==
  LET w == Window(h)
      n == Len(h)
  IN /\ n <= WindowSize => w = h
     /\ n = 0 => w = <<>>
     /\ n > WindowSize =>
          /\ w[1] = h[1]
          /\ \A k \in 1..WindowSize : w[k + 1] = h[n - WindowSize + k]
     /\ Len(w) = Min(n, WindowSize + 1)

C9_WindowStep ==
  (pc = "check" /\ pc' = "append") =>
    /\ Msgs(conversation_history') = Msgs(conversation_history)
    /\ file' = file /\ temp' = temp

C9_WindowIsPure == [][C9_WindowStep]_vars

\* The window was computed of a history longer than the window, which is
\* still whole
C9_Witness ==
  /\ pc = "append"
  /\ shortened_history.bound
  /\ Len(history) > WindowSize + 1
  /\ history = turn0

\* C10: load returns the persisted history when a save has written the
\* record, and the empty history when there is no record; it never raises,
\* so main() always reaches the capture step.
C10_LoadStep ==
  pc = "start" =>
    /\ pc' \in {"listen", "crashed"}
    /\ pc' = "listen" =>
         /\ file = NoFile => conversation_history' = EmptyHistory
         /\ persisted.some => conversation_history' = persisted.val

C10_Load == [][C10_LoadStep]_vars

\* A process has loaded a saved history and has not captured anything yet
C10_Witness ==
  /\ pc = "listen"
  /\ turn0 = <<>>
  /\ persisted.some
  /\ conversation_history = persisted.val
  /\ Len(history) >= 2

\* C11: a save that failed is reported and leaves the in-memory history as
\* it was, and the session goes on after it: main() has not returned while
\* the last save is a failed one.
C11_FailedSaveNotFatal ==
  save_result = "error" =>
    /\ history = turn0
    /\ pc # "done"

\* The symbols the claim lists: space ? ! . , : ; - ' *
AllowedSymbols == {" ", "?", "!", ".", ",", ":", ";", "-", "'", "*"}

\* The test of C12 on one character
Passes(c) == (c \in Alnum \/ c \in AllowedSymbols) /\ c \notin filtered_chars

\* out holds exactly the characters of s that pass, in the order of s
IsPassingSubsequence(s, out) ==
  LET kept == {i \in 1..Len(s) : Passes(s[i])}
      rank(i) == Cardinality({k \in kept : k <= i})
  IN /\ Len(out) = Cardinality(kept)
     /\ \A i \in kept : out[rank(i)] = s[i]

\* C12: for every text s and every forbidden set, filter(s) holds only
\* characters that are alphanumeric or allowed symbols and not forbidden, it
\* is the subsequence of s of exactly the characters that pass, and filtering
\* it again gives it back.
C12_FilterIdempotentBounded ==
  /\ pc = "tts" =>
       /\ \A k \in 1..Len(response) : Passes(response[k])
       /\ IsPassingSubsequence(input_text, response)
  /\ pc = "filtered_twice" => response = input_text

\* A text was filtered twice; the first pass dropped a forbidden letter and
\* a character outside the allowed set and kept the rest
C12_Witness ==
  /\ pc = "filtered_twice"
  /\ filtered_chars = {"o"}
  /\ response = <<"a", "!">>

\* s is an initial segment of t
IsPrefixOf(s, t) == Len(s) <= Len(t) /\ SubSeq(t, 1, Len(s)) = s

\* A step the running process takes itself (it is not ended from outside,
\* not ended by an uncaught exception, and not started again)
SessionStep == pc' \notin {"crashed", "died", "start"}

\* C13: across every step of a session the history before the step is a
\* prefix of the history after it, and a first message, once present, stays
\* the first message.
C13_AppendOnly ==
  [][SessionStep =>
       /\ IsPrefixOf(history, history')
       /\ (history # <<>> => history'[1] = history[1])]_vars

\* A session that loaded a record has appended to it past the window size
C13_Witness ==
  /\ pc = "filter"
  /\ loaded # <<>>
  /\ Len(appended) >= 2
  /\ Len(history) > WindowSize + 1
  /\ history[1] = loaded[1]

\* The text get_ollama_response returned in this turn: response until
\* filter_response has replaced it, its argument afterwards
ReturnedText == IF pc = "filter" THEN response ELSE input_text

\* C14: from the Generate step to the end of the turn, whatever the later
\* stages did, the history is the history the turn started with followed by
\* the user message (start prompt + utterance) and, when generation
\* succeeded, the assistant message holding the returned text; when
\* generation failed, by the user message alone.
C14_TurnGrowth ==
  LET user == [role |-> "user", content |-> START_PROMPT \o user_input]
      assistant == [role |-> "assistant", content |-> ReturnedText]
  IN /\ gen = "ok" => history = turn0 \o <<user, assistant>>
     /\ gen = "fail" => history = turn0 \o <<user>>

\* A turn whose generation failed has run to the end after a turn whose
\* generation succeeded
C14_Witness ==
  /\ gen = "fail"
  /\ pc = "listen"
  /\ "play" \in calls
  /\ Len(turn0) = 2
  /\ turn0[2].role = "assistant"
  /\ Len(history) = 3

\* C15: a capture that yields no utterance, by failing or by returning
\* nothing or the empty text, leaves the history as it was, makes no
\* generate, synthesize, resample, play or save call, and is followed by the
\* next capture. (A process ended from outside is not a capture outcome.)
C15_CaptureFailureSkipsTurn ==
  [][/\ (pc = "listen" /\ pc' # "crashed") =>
          /\ pc' = "check"
          /\ history' = history
          /\ calls' = {}
     /\ (pc = "check" /\ ~Truthy(user_input) /\ pc' # "crashed") =>
          /\ pc' = "listen"
          /\ history' = history
          /\ calls' = {}]_vars

\* C16: after a turn whose synthesize call failed, neither resample nor
\* playback was attempted, the history is the turn's starting history
\* followed by the turn's user message and assistant message, and the loop is
\* back at the next capture.
C16_SynthesisFailureAbortsTurn ==
  ("synthesize" \in calls /\ audio_file = None /\ pc \in Running) =>
    /\ pc = "listen"
    /\ calls \cap {"resample", "play"} = {}
    /\ history = turn0 \o <<TurnUserMessage,
                            Message(RoleAssistant, input_text)>>

\* C17: when the export to the derived path failed and the default file was
\* written, resample returned the default filename and that is the file
\* played; when the fallback write failed too, or resampling failed before
\* any write, resample returned nothing, nothing is played in the turn and
\* the loop is at the next capture; playback happens only with the path
\* resample returned.
C17_ResampleFallback ==
  /\ "default_written" \in calls =>
       /\ resampled_audio = DefaultResampledPath
       /\ \/ pc = "play"
          \/ pc = "listen" /\ played = DefaultResampledPath
  /\ ("export_failed" \in calls /\ "default_written" \notin calls) =>
       resampled_audio = None
  /\ ("resample" \in calls /\ resampled_audio = None) =>
       /\ pc = "listen"
       /\ "play" \notin calls
       /\ played = None
  /\ "play" \in calls =>
       /\ resampled_audio # None
       /\ played = resampled_audio

\* The default file was written after the derived export failed, and played
C17_Witness ==
  /\ pc = "listen"
  /\ "default_written" \in calls
  /\ "play" \in calls
  /\ played = "non_resampled.wav"

\* C18: when main() has returned through the exit keyword with a successful
\* save, the record is the dump of the in-memory history, reads back as that
\* history, and the history is what was loaded at start followed by every
\* message appended since, the user messages of failed turns included.
C18_FinalStatePersisted ==
  (pc = "done" /\ save_result = "ok") =>
    /\ IsExit(user_input)
    /\ file = JsonDump(conversation_history)
    /\ Msgs(load_conversation_history(file)) = history
    /\ history = loaded \o appended

\* A clean exit of a session that loaded a record and whose last turn
\* failed at the Generate step
C18_Witness ==
  /\ pc = "done"
  /\ save_result = "ok"
  /\ loaded # <<>>
  /\ appended # <<>>
  /\ appended[Len(appended)].role = "user"
  /\ file = JsonDump(user_id :> (loaded \o appended))

\* The record exists and json.load raises on it
Unparseable == file # NoFile /\ ~JsonLoad(file).ok

\* C19: with a record that does not parse, the load step does not end the
\* process and leaves the session with the empty history; no step changes
\* the record except the os.replace of a successful save, and that one puts
\* in its place the dump of the in-memory history, which reads back as the
\* messages appended in the current session and nothing else.
C19_UnreadableStep ==
  /\ (pc = "start" /\ pc' # "crashed" /\ Unparseable) =>
       /\ pc' = "listen"
       /\ conversation_history' = EmptyHistory
  /\ (file' # file /\ Unparseable) =>
       /\ pc = "replace"
       /\ pc' = "done"
       /\ save_result' = "ok"
       /\ IsExit(user_input)
       /\ file' = JsonDump(conversation_history)
       /\ Msgs(load_conversation_history(file')) = appended

C19_UnreadableRecord == [][C19_UnreadableStep]_vars

\* A session that started on an unparseable record has run a turn, received
\* the exit keyword and written its history to the temporary file; the
\* unreadable record is still in place for os.replace to replace
C19_Witness ==
  /\ pc = "replace"
  /\ Unparseable
  /\ loaded = <<>>
  /\ Len(appended) >= 2
  /\ temp = JsonDump(user_id :> appended)

====
